---- MODULE Spec2Model ----
(***************************************************************************)
(* The redux-style Store of gio-redux-example.                             *)
(*                                                                         *)
(* The generic, lock-protected Store (src/unnamed/part_000) is modelled    *)
(* as a set of goroutines, each with a call stack of frames; one step of   *)
(* a goroutine is one lock operation, one access to shared memory or one   *)
(* call/return.  Go slices are modelled as (array, len) headers over a     *)
(* heap of backing arrays, so that aliasing between s.subscribers and a    *)
(* copy of its header is visible.                                          *)
(***************************************************************************)
EXTENDS Integers, Sequences, FiniteSets, TLC

VARIABLES
    state,        \* Store.state (a State record)
    mu,           \* Store.mu (sync.RWMutex)
    subscribers,  \* Store.subscribers: slice header [arr, len]
    heap,         \* backing arrays of the []func() slices
    middleware,   \* Store.middleware
    dispatch,     \* Store.dispatch: the composed pipeline
    stack,        \* per goroutine: its call stack, innermost frame last
    ret,          \* per goroutine: the value its last GetState returned
    calls,        \* per goroutine: top-level calls issued so far
    closures,     \* per Subscribe call: the callback and its unsubscribe closure
    initialState, \* the initialState argument of NewStore
    applied,      \* history: the state transitions, in the order they were written
    trace,        \* per goroutine: events of its current top-level call
    issued,       \* history: per goroutine, how many of each action it has dispatched
    ls,           \* the Store with listeners of src/main.go and its one goroutine
    ms,           \* the Store with middleware of src/main.go and its one goroutine
    reducer,      \* Store.reducer
    reads         \* history: per goroutine, what its last GetState returned

vars == <<state, mu, subscribers, heap, middleware, dispatch, stack, ret, calls,
          closures, initialState, applied, trace, issued, ls, ms, reducer, reads>>

---------------------------------------------------------------------------
\* Bounds of the model.

NumThreads == 2
MaxCalls == 3
MaxIncr == 2
MaxSeqCalls == 4
MaxReenterCalls == 2
MaxSubs == 3
MaxReentry == 1
MaxLiveCalls == 2

Threads == 1..NumThreads
NoThread == 0
NoCb == 0
NoAct == "none"
\* the values of Store.reducer: the function reduce, or nil
ReduceFn == "reduce"
NilReducer == "nil"
Actions == {"Increment", "Decrement"}

---------------------------------------------------------------------------
\* State, actions, reducer.

Copy(s) == [Count |-> s.Count]

IncrementApply(s) == [Copy(s) EXCEPT !.Count = @ + 1]

DecrementApply(s) == [Copy(s) EXCEPT !.Count = @ - 1]

Apply(a, s) == IF a = "Increment" THEN IncrementApply(s) ELSE DecrementApply(s)

reduce(s, a) == Apply(a, s)

---------------------------------------------------------------------------
\* Go slices of callbacks.

EmptySlice == [arr |-> 0, len |-> 0]

Cap(h, s) == IF s.arr = 0 THEN 0 ELSE Len(h[s.arr])

\* runtime.growslice for small slices of pointer-sized elements
GrowCap(old, need) == IF need > 2 * old THEN need ELSE 2 * old

\* append(s, x)
AppendSlice(h, s, x) ==
    IF s.len < Cap(h, s)
    THEN [heap |-> [h EXCEPT ![s.arr][s.len + 1] = x],
          slice |-> [arr |-> s.arr, len |-> s.len + 1]]
    ELSE LET newcap == GrowCap(Cap(h, s), s.len + 1)
             newarr == [j \in 1..newcap |->
                           IF j <= s.len THEN h[s.arr][j]
                           ELSE IF j = s.len + 1 THEN x ELSE NoCb]
         IN [heap |-> Append(h, newarr),
             slice |-> [arr |-> Len(h) + 1, len |-> s.len + 1]]

\* append(s[:index], s[index+1:]...) for index < len(s): the tail is moved
\* down inside the same backing array (index is 0-based as in the code)
RemoveAt(h, s, index) ==
    [heap |-> [h EXCEPT ![s.arr] =
                  [j \in 1..Len(h[s.arr]) |->
                      IF j > index /\ j < s.len THEN h[s.arr][j + 1]
                      ELSE h[s.arr][j]]],
     slice |-> [arr |-> s.arr, len |-> s.len - 1]]

\* the elements a slice header denotes at this moment
Elems(h, s) == [j \in 1..s.len |-> h[s.arr][j]]

---------------------------------------------------------------------------
\* sync.RWMutex.  mu.writer is the goroutine holding the write lock,
\* mu.waiting the goroutines blocked in Lock() (a blocked writer keeps new
\* readers out), mu.r the number of read locks each goroutine holds.

FreeMutex == [writer |-> NoThread, waiting |-> {}, r |-> [u \in Threads |-> 0]]

CanLock_NoExclusion(t) == TRUE

CanLock(t) == mu.writer = NoThread /\ \A u \in Threads : mu.r[u] = 0

CanRLock(t) == mu.writer = NoThread /\ mu.waiting = {}

HoldsLock(t) == mu.writer = t \/ mu.r[t] > 0

---------------------------------------------------------------------------
\* Call stacks.

\* A frame: the function, its program counter and its locals.  act: the
\* action argument; next: the rest of the pipeline (a middleware's next);
\* i: a loop index, a callback or an entry count; snap: a slice header held
\* in a local; tmp: a State held in a local; seq: the number of the Dispatch
\* call among its goroutine's; reg and called are history: the callbacks
\* registered (and those already unsubscribed) when the Dispatch call
\* started, and the callbacks it has invoked.
Frame(fn, pc, act, next, i, snap, tmp, seq, reg) ==
    [fn |-> fn, pc |-> pc, act |-> act, next |-> next, i |-> i,
     snap |-> snap, tmp |-> tmp, seq |-> seq, reg |-> reg, called |-> <<>>]

NoReg == [list |-> <<>>, gone |-> {}]

Top(t) == stack[t][Len(stack[t])]

Running(t) == stack[t] # <<>>

At(t, fn, pc) == Running(t) /\ Top(t).fn = fn /\ Top(t).pc = pc

Pop(s) == SubSeq(s, 1, Len(s) - 1)

\* the stack with the top frame's pc changed
Goto(t, pc) == [stack[t] EXCEPT ![Len(stack[t])].pc = pc]

\* how deep in callbacks t is: 0 in the call the goroutine made itself
Level(t) == Cardinality({j \in 1..Len(stack[t]) : stack[t][j].fn = "callback"})

\* calling a Dispatch closure: its outermost stage runs with the rest as next
Invoke(p, a, seq, reg) ==
    IF Head(p) = "dispatchInternal"
    THEN Frame("dispatchInternal", "Lock", a, <<>>, 0, EmptySlice, [Count |-> 0], seq, reg)
    ELSE Frame(Head(p), "before", a, Tail(p), 0, EmptySlice, [Count |-> 0], seq, reg)

\* a call of GetState; i remembers how many transitions were written before it
GetStateFrame ==
    Frame("GetState", "RLock", NoAct, <<>>, Len(applied), EmptySlice, [Count |-> 0], 0, NoReg)

SubscribeFrame(id) ==
    Frame("Subscribe", "Lock", NoAct, <<>>, id, EmptySlice, [Count |-> 0], 0, NoReg)

UnsubscribeFrame(id) ==
    Frame("unsubscribe", "Lock", NoAct, <<>>, id, EmptySlice, [Count |-> 0], 0, NoReg)

CallbackFrame(id) ==
    Frame("callback", "body", NoAct, <<>>, id, EmptySlice, [Count |-> 0], 0, NoReg)

Event(e, k, v, t) == [e |-> e, k |-> k, v |-> v, lvl |-> Level(t)]

Push(t, f) == [stack EXCEPT ![t] = Append(@, f)]

\* t's stack with the top frame's pc changed and f pushed on it
CallFrom(t, pc, f) == [stack EXCEPT ![t] = Append(Goto(t, pc), f)]

Return(t) == [stack EXCEPT ![t] = Pop(@)]

Jump(t, pc) == [stack EXCEPT ![t] = Goto(t, pc)]

Log(t, e) == [trace EXCEPT ![t] = Append(@, e)]

---------------------------------------------------------------------------
\* NewStore.

RECURSIVE applyMiddlewareFrom(_, _, _)
\* the loop of applyMiddleware from index i (1-based) down to the first
applyMiddlewareFrom(mw, i, d) ==
    IF i = 0 THEN d ELSE applyMiddlewareFrom(mw, i - 1, <<mw[i]>> \o d)

RECURSIVE applyMiddlewareUpTo(_, _, _)
\* the loop run from the first middleware up to the last
applyMiddlewareUpTo(mw, i, d) ==
    IF i > Len(mw) THEN d ELSE applyMiddlewareUpTo(mw, i + 1, <<mw[i]>> \o d)

applyMiddleware_Forward(mw, d) == applyMiddlewareUpTo(mw, 1, d)

\* for i := len(s.middleware) - 1; i >= 0; i-- { dispatch = s.middleware[i](s, dispatch) }
applyMiddleware(mw, d) == applyMiddlewareFrom(mw, Len(mw), d)

dispatchInternal == <<"dispatchInternal">>

\* what Subscribe makes of a callback: the callback (its behaviour when it is
\* notified), the index its unsubscribe closure captured, whether Subscribe has
\* returned the closure, and how many Dispatch calls the callback may still
\* make; as history, how often the closure has been called, and whether a
\* call of it has returned
Closure(kind, index, ready) ==
    [kind |-> kind, index |-> index, ready |-> ready, budget |-> MaxReentry,
     unsubs |-> 0, gone |-> FALSE]

\* the value of ls where the Store with listeners is not in use
NoListenerStore ==
    [variant |-> "none", state |-> [Count |-> 0], listeners |-> <<>>,
     stack |-> <<>>, calls |-> 0, log |-> <<>>]

\* the value of ms where the Store with middleware of src/main.go is not in use
NoMiddlewareStore ==
    [active |-> FALSE, state |-> [Count |-> 0], middleware |-> <<>>, dispatch |-> <<>>,
     stack |-> <<>>, calls |-> 0, trace |-> <<>>, log |-> <<>>]

\* what reads holds before a goroutine's first GetState returns
NoRead == [val |-> [Count |-> 0], seq |-> -1]

RECURSIVE SubscribedSlice(_)
\* s.subscribers and its backing arrays after n Subscribe calls
SubscribedSlice(n) ==
    IF n = 0 THEN [heap |-> <<>>, slice |-> EmptySlice]
    ELSE AppendSlice(SubscribedSlice(n - 1).heap, SubscribedSlice(n - 1).slice, n)

\* The store after NewStore(r, init, mw...) and then one Subscribe call for
\* each callback of kinds.
StartedWith(r, init, mw, kinds) ==
    /\ state = init
    /\ reducer = r
    /\ reads = [t \in Threads |-> NoRead]
    /\ initialState = init
    /\ mu = FreeMutex
    /\ heap = SubscribedSlice(Len(kinds)).heap
    /\ subscribers = SubscribedSlice(Len(kinds)).slice
    /\ middleware = mw
    /\ dispatch = applyMiddleware(mw, dispatchInternal)
    /\ stack = [t \in Threads |-> <<>>]
    /\ ret = [t \in Threads |-> init]
    /\ calls = [t \in Threads |-> 0]
    /\ closures = [j \in 1..Len(kinds) |-> Closure(kinds[j], j - 1, TRUE)]
    /\ applied = <<>>
    /\ trace = [t \in Threads |-> <<>>]
    /\ issued = [t \in Threads |-> [a \in Actions |-> 0]]

\* The store as run() sets it up before the event loop starts: NewStore(reduce,
\* init, mw...) and then one Subscribe call for each callback of kinds.
Started(init, mw, kinds) == StartedWith(ReduceFn, init, mw, kinds)

---------------------------------------------------------------------------
\* The lock operations of the functions that take the write lock
\* (dispatchInternal, Subscribe, the unsubscribe closure).

\* where each function continues once it holds the write lock
AfterLock(fn) ==
    IF fn = "dispatchInternal" THEN "read"
    ELSE IF fn = "Subscribe" THEN "append" ELSE "remove"

\* s.mu.Lock() left out: the function goes on without the lock
LockArrive_NoLock(t) ==
    /\ Running(t) /\ Top(t).pc = "Lock"
    /\ stack' = Jump(t, AfterLock(Top(t).fn))
    /\ UNCHANGED <<state, mu, subscribers, heap, middleware, dispatch, ret, calls,
                   closures, initialState, applied, trace, issued, ls, ms, reducer,
                   reads>>

\* s.mu.Lock() is reached: the goroutine queues for the write lock
LockArrive(t) ==
    /\ Running(t) /\ Top(t).pc = "Lock"
    /\ mu' = [mu EXCEPT !.waiting = @ \cup {t}]
    /\ stack' = Jump(t, "LockWait")
    /\ UNCHANGED <<state, subscribers, heap, middleware, dispatch, ret, calls,
                   closures, initialState, applied, trace, issued, ls, ms, reducer,
                   reads>>

\* s.mu.Lock() returns
LockAcquire(t) ==
    /\ Running(t) /\ Top(t).pc = "LockWait"
    /\ CanLock(t)
    /\ mu' = [mu EXCEPT !.writer = t, !.waiting = @ \ {t}]
    /\ stack' = Jump(t, AfterLock(Top(t).fn))
    /\ UNCHANGED <<state, subscribers, heap, middleware, dispatch, ret, calls,
                   closures, initialState, applied, trace, issued, ls, ms, reducer,
                   reads>>

---------------------------------------------------------------------------
\* dispatchInternal: the terminal stage of the pipeline.

\* the argument s.state of s.reducer(s.state, action) is read
DispatchInternalRead(t) ==
    /\ At(t, "dispatchInternal", "read")
    /\ stack' = [stack EXCEPT ![t] = [Goto(t, "write") EXCEPT ![Len(stack[t])].tmp = state]]
    /\ UNCHANGED <<state, mu, subscribers, heap, middleware, dispatch, ret, calls,
                   closures, initialState, applied, trace, issued, ls, ms, reducer,
                   reads>>

\* s.reducer(s.state, action) with the assignment to s.state left out
DispatchInternalWrite_Discard(t) ==
    /\ At(t, "dispatchInternal", "write")
    /\ stack' = Jump(t, "Unlock")
    /\ UNCHANGED <<state, mu, subscribers, heap, middleware, dispatch, ret, calls,
                   closures, initialState, applied, trace, issued, ls, ms, reducer,
                   reads>>

\* s.state = s.reducer(..., action)
DispatchInternalWrite(t) ==
    /\ At(t, "dispatchInternal", "write")
    /\ reducer = ReduceFn
    /\ state' = reduce(Top(t).tmp, Top(t).act)
    /\ applied' = Append(applied, [t |-> t, seq |-> Top(t).seq, act |-> Top(t).act])
    /\ trace' = Log(t, Event("reducer", Top(t).act, 0, t))
    /\ stack' = Jump(t, "Unlock")
    /\ UNCHANGED <<mu, subscribers, heap, middleware, dispatch, ret, calls,
                   closures, initialState, issued, ls, ms, reducer,
                   reads>>

\* s.reducer(s.state, action) with s.reducer nil: the call panics (nil function
\* value).  dispatchInternal defers nothing, so the goroutine leaves it with
\* s.mu still write-locked; "panic" is the end of the goroutine.
DispatchInternalPanic(t) ==
    /\ At(t, "dispatchInternal", "write")
    /\ reducer = NilReducer
    /\ stack' = Jump(t, "panic")
    /\ UNCHANGED <<state, mu, subscribers, heap, middleware, dispatch, ret, calls,
                   closures, initialState, applied, trace, issued, ls, ms, reducer,
                   reads>>

\* s.mu.Unlock()
DispatchInternalUnlock(t) ==
    /\ At(t, "dispatchInternal", "Unlock")
    /\ mu' = [mu EXCEPT !.writer = NoThread]
    /\ stack' = Jump(t, "RLock")
    /\ UNCHANGED <<state, subscribers, heap, middleware, dispatch, ret, calls,
                   closures, initialState, applied, trace, issued, ls, ms, reducer,
                   reads>>

\* s.mu.RLock()
DispatchInternalRLock(t) ==
    /\ At(t, "dispatchInternal", "RLock")
    /\ CanRLock(t)
    /\ mu' = [mu EXCEPT !.r[t] = @ + 1]
    /\ stack' = Jump(t, "snapshot")
    /\ UNCHANGED <<state, subscribers, heap, middleware, dispatch, ret, calls,
                   closures, initialState, applied, trace, issued, ls, ms, reducer,
                   reads>>

\* the snapshot with the read lock kept (released only after the loop)
DispatchInternalSnapshot_KeepLock(t) ==
    /\ At(t, "dispatchInternal", "snapshot")
    /\ stack' = [stack EXCEPT ![t] =
                    [Goto(t, "notify") EXCEPT ![Len(stack[t])].snap = subscribers]]
    /\ UNCHANGED <<state, mu, subscribers, heap, middleware, dispatch, ret, calls,
                   closures, initialState, applied, trace, issued, ls, ms, reducer,
                   reads>>

\* subscribers := s.subscribers (the slice header is copied, not the array)
DispatchInternalSnapshot(t) ==
    /\ At(t, "dispatchInternal", "snapshot")
    /\ stack' = [stack EXCEPT ![t] =
                    [Goto(t, "RUnlock") EXCEPT ![Len(stack[t])].snap = subscribers]]
    /\ UNCHANGED <<state, mu, subscribers, heap, middleware, dispatch, ret, calls,
                   closures, initialState, applied, trace, issued, ls, ms, reducer,
                   reads>>

\* s.mu.RUnlock()
DispatchInternalRUnlock(t) ==
    /\ At(t, "dispatchInternal", "RUnlock")
    /\ mu' = [mu EXCEPT !.r[t] = @ - 1]
    /\ stack' = Jump(t, "notify")
    /\ UNCHANGED <<state, subscribers, heap, middleware, dispatch, ret, calls,
                   closures, initialState, applied, trace, issued, ls, ms, reducer,
                   reads>>

\* one iteration of "for _, sub := range subscribers { sub() }": the element
\* is read from the backing array now and called
DispatchInternalNotify(t) ==
    /\ At(t, "dispatchInternal", "notify")
    /\ Top(t).i < Top(t).snap.len
    /\ LET sub == heap[Top(t).snap.arr][Top(t).i + 1]
           n == Len(stack[t])
       IN /\ stack' = [stack EXCEPT ![t] =
                          Append([stack[t] EXCEPT ![n].i = @ + 1,
                                                  ![n].called = Append(@, sub)],
                                 CallbackFrame(sub))]
          /\ trace' = Log(t, Event("callback", sub, 0, t))
    /\ UNCHANGED <<state, mu, subscribers, heap, middleware, dispatch, ret, calls,
                   closures, initialState, applied, issued, ls, ms, reducer,
                   reads>>

\* the loop is over: the closure returns
DispatchInternalReturn(t) ==
    /\ At(t, "dispatchInternal", "notify")
    /\ Top(t).i >= Top(t).snap.len
    /\ stack' = Return(t)
    /\ UNCHANGED <<state, mu, subscribers, heap, middleware, dispatch, ret, calls,
                   closures, initialState, applied, trace, issued, ls, ms, reducer,
                   reads>>

---------------------------------------------------------------------------
\* GetState.

GetStateRLock(t) ==
    /\ At(t, "GetState", "RLock")
    /\ CanRLock(t)
    /\ mu' = [mu EXCEPT !.r[t] = @ + 1]
    /\ stack' = Jump(t, "copy")
    /\ UNCHANGED <<state, subscribers, heap, middleware, dispatch, ret, calls,
                   closures, initialState, applied, trace, issued, ls, ms, reducer,
                   reads>>

\* a GetState that hands the stored state over and leaves the zero State
GetStateCopy_Take(t) ==
    /\ At(t, "GetState", "copy")
    /\ state' = [Count |-> 0]
    /\ stack' = [stack EXCEPT ![t] =
                    [Goto(t, "RUnlock") EXCEPT ![Len(stack[t])].tmp = state,
                                               ![Len(stack[t])].seq = Len(applied)]]
    /\ UNCHANGED <<mu, subscribers, heap, middleware, dispatch, ret, calls,
                   closures, initialState, applied, trace, issued, ls, ms, reducer,
                   reads>>

\* s.state.Copy(); seq remembers how many transitions were written before it
GetStateCopy(t) ==
    /\ At(t, "GetState", "copy")
    /\ stack' = [stack EXCEPT ![t] =
                    [Goto(t, "RUnlock") EXCEPT ![Len(stack[t])].tmp = Copy(state),
                                               ![Len(stack[t])].seq = Len(applied)]]
    /\ UNCHANGED <<state, mu, subscribers, heap, middleware, dispatch, ret, calls,
                   closures, initialState, applied, trace, issued, ls, ms, reducer,
                   reads>>

\* the deferred s.mu.RUnlock(), and the return of the copy
GetStateReturn(t) ==
    /\ At(t, "GetState", "RUnlock")
    /\ mu' = [mu EXCEPT !.r[t] = @ - 1]
    /\ ret' = [ret EXCEPT ![t] = Top(t).tmp]
    /\ reads' = [reads EXCEPT ![t] = [val |-> Top(t).tmp, seq |-> Top(t).seq]]
    /\ stack' = Return(t)
    /\ UNCHANGED <<state, subscribers, heap, middleware, dispatch, calls,
                   closures, initialState, applied, trace, issued, ls, ms, reducer>>

---------------------------------------------------------------------------
\* Subscribe and the unsubscribe closure it returns.

\* s.subscribers = append(s.subscribers, fn); index := len(s.subscribers) - 1
SubscribeAppend(t) ==
    /\ At(t, "Subscribe", "append")
    /\ LET r == AppendSlice(heap, subscribers, Top(t).i)
       IN /\ heap' = r.heap
          /\ subscribers' = r.slice
          /\ closures' = [closures EXCEPT ![Top(t).i].index = r.slice.len - 1]
    /\ stack' = Jump(t, "Unlock")
    /\ UNCHANGED <<state, mu, middleware, dispatch, ret, calls,
                   initialState, applied, trace, issued, ls, ms, reducer,
                   reads>>

\* Subscribe without its defer s.mu.Unlock(): it returns with the lock held
SubscribeReturn_NoUnlock(t) ==
    /\ At(t, "Subscribe", "Unlock")
    /\ closures' = [closures EXCEPT ![Top(t).i].ready = TRUE]
    /\ stack' = Return(t)
    /\ UNCHANGED <<state, mu, subscribers, heap, middleware, dispatch, ret, calls,
                   initialState, applied, trace, issued, ls, ms, reducer,
                   reads>>

\* the deferred s.mu.Unlock(), and the return of the closure to the caller
SubscribeReturn(t) ==
    /\ At(t, "Subscribe", "Unlock")
    /\ mu' = [mu EXCEPT !.writer = NoThread]
    /\ closures' = [closures EXCEPT ![Top(t).i].ready = TRUE]
    /\ stack' = Return(t)
    /\ UNCHANGED <<state, subscribers, heap, middleware, dispatch, ret, calls,
                   initialState, applied, trace, issued, ls, ms, reducer,
                   reads>>

\* if index < len(s.subscribers) { s.subscribers = append(s.subscribers[:index],
\* s.subscribers[index+1:]...) }
UnsubscribeRemove(t) ==
    /\ At(t, "unsubscribe", "remove")
    /\ LET index == closures[Top(t).i].index
           r == RemoveAt(heap, subscribers, index)
       IN IF index < subscribers.len
          THEN heap' = r.heap /\ subscribers' = r.slice
          ELSE UNCHANGED <<heap, subscribers>>
    /\ stack' = Jump(t, "Unlock")
    /\ UNCHANGED <<state, mu, middleware, dispatch, ret, calls,
                   closures, initialState, applied, trace, issued, ls, ms, reducer,
                   reads>>

\* the deferred s.mu.Unlock(), and the return
UnsubscribeReturn(t) ==
    /\ At(t, "unsubscribe", "Unlock")
    /\ mu' = [mu EXCEPT !.writer = NoThread]
    /\ closures' = [closures EXCEPT ![Top(t).i].gone = TRUE]
    /\ stack' = Return(t)
    /\ UNCHANGED <<state, subscribers, heap, middleware, dispatch, ret, calls,
                   initialState, applied, trace, issued, ls, ms, reducer,
                   reads>>

\* NewStore(reducer, initialState, middleware...)
NewStore(init, mw) == Started(init, mw, <<>>)

---------------------------------------------------------------------------
\* Middleware.  LoggingMiddleware is the repository's; A and B are probes
\* that record when they run.

Probes == {"A", "B"}

\* prevState := store.GetState()
LoggingGetPrev(t) ==
    /\ At(t, "Logging", "before")
    /\ stack' = CallFrom(t, "logPrev", GetStateFrame)
    /\ UNCHANGED <<state, mu, subscribers, heap, middleware, dispatch, ret, calls,
                   closures, initialState, applied, trace, issued, ls, ms, reducer,
                   reads>>

\* log.Printf of the previous state, with next(action) left out
LoggingNext_Swallow(t) ==
    /\ At(t, "Logging", "logPrev")
    /\ trace' = Log(t, Event("before", "Logging", ret[t].Count, t))
    /\ stack' = Jump(t, "after")
    /\ UNCHANGED <<state, mu, subscribers, heap, middleware, dispatch, ret, calls,
                   closures, initialState, applied, issued, ls, ms, reducer,
                   reads>>

\* log.Printf("... Previous State: %+v", ...); next(action)
LoggingNext(t) ==
    /\ At(t, "Logging", "logPrev")
    /\ trace' = Log(t, Event("before", "Logging", ret[t].Count, t))
    /\ stack' = CallFrom(t, "after", Invoke(Top(t).next, Top(t).act, Top(t).seq, Top(t).reg))
    /\ UNCHANGED <<state, mu, subscribers, heap, middleware, dispatch, ret, calls,
                   closures, initialState, applied, issued, ls, ms, reducer,
                   reads>>

\* newState := store.GetState()
LoggingGetNew(t) ==
    /\ At(t, "Logging", "after")
    /\ stack' = CallFrom(t, "logNew", GetStateFrame)
    /\ UNCHANGED <<state, mu, subscribers, heap, middleware, dispatch, ret, calls,
                   closures, initialState, applied, trace, issued, ls, ms, reducer,
                   reads>>

\* log.Printf("... New State: %+v", ...); return
LoggingReturn(t) ==
    /\ At(t, "Logging", "logNew")
    /\ trace' = Log(t, Event("after", "Logging", ret[t].Count, t))
    /\ stack' = Return(t)
    /\ UNCHANGED <<state, mu, subscribers, heap, middleware, dispatch, ret, calls,
                   closures, initialState, applied, issued, ls, ms, reducer,
                   reads>>

\* a probe records its before-part and calls next(action)
ProbeBefore(t) ==
    /\ Running(t) /\ Top(t).fn \in Probes /\ Top(t).pc = "before"
    /\ trace' = Log(t, Event("before", Top(t).fn, 0, t))
    /\ stack' = CallFrom(t, "after", Invoke(Top(t).next, Top(t).act, Top(t).seq, Top(t).reg))
    /\ UNCHANGED <<state, mu, subscribers, heap, middleware, dispatch, ret, calls,
                   closures, initialState, applied, issued, ls, ms, reducer,
                   reads>>

\* a probe records its after-part and returns
ProbeAfter(t) ==
    /\ Running(t) /\ Top(t).fn \in Probes /\ Top(t).pc = "after"
    /\ trace' = Log(t, Event("after", Top(t).fn, 0, t))
    /\ stack' = Return(t)
    /\ UNCHANGED <<state, mu, subscribers, heap, middleware, dispatch, ret, calls,
                   closures, initialState, applied, issued, ls, ms, reducer,
                   reads>>

---------------------------------------------------------------------------
\* Store.Dispatch, called by a goroutine or from inside a callback.

\* a Dispatch that wraps s.dispatch in the middleware again before calling it
Dispatch_Recompose(t, a) ==
    Invoke(applyMiddleware(middleware, dispatch), a,
           issued[t]["Increment"] + issued[t]["Decrement"] + 1,
           [list |-> Elems(heap, subscribers),
            gone |-> {id \in 1..Len(closures) : closures[id].gone}])

\* s.dispatch(action): the frame of the pipeline's outermost stage
Dispatch(t, a) ==
    Invoke(dispatch, a, issued[t]["Increment"] + issued[t]["Decrement"] + 1,
           [list |-> Elems(heap, subscribers),
            gone |-> {id \in 1..Len(closures) : closures[id].gone}])

---------------------------------------------------------------------------
\* Subscriber callbacks.  A callback's kind says what it does when notified.

CbKind(t) == closures[Top(t).i].kind

\* a callback that does not touch the store (w.Invalidate())
CallbackPlain(t) ==
    /\ At(t, "callback", "body") /\ CbKind(t) = "plain"
    /\ stack' = Return(t)
    /\ UNCHANGED <<state, mu, subscribers, heap, middleware, dispatch, ret, calls,
                   closures, initialState, applied, trace, issued, ls, ms, reducer,
                   reads>>

\* a callback that re-reads the state
CallbackGetState(t) ==
    /\ At(t, "callback", "body") /\ CbKind(t) = "getstate"
    /\ stack' = CallFrom(t, "done", GetStateFrame)
    /\ UNCHANGED <<state, mu, subscribers, heap, middleware, dispatch, ret, calls,
                   closures, initialState, applied, trace, issued, ls, ms, reducer,
                   reads>>

\* a callback that subscribes another (plain) callback, while the model has
\* callbacks left
CallbackSubscribe(t) ==
    /\ At(t, "callback", "body") /\ CbKind(t) = "subscribe"
    /\ IF Len(closures) < MaxSubs
       THEN /\ closures' = Append(closures, Closure("plain", -1, FALSE))
            /\ stack' = CallFrom(t, "done", SubscribeFrame(Len(closures) + 1))
       ELSE /\ closures' = closures
            /\ stack' = Return(t)
    /\ UNCHANGED <<state, mu, subscribers, heap, middleware, dispatch, ret, calls,
                   initialState, applied, trace, issued, ls, ms, reducer,
                   reads>>

\* a callback that calls its own unsubscribe closure
CallbackUnsubscribe(t) ==
    /\ At(t, "callback", "body") /\ CbKind(t) = "unsubscribe"
    /\ closures' = [closures EXCEPT ![Top(t).i].unsubs = @ + 1]
    /\ stack' = CallFrom(t, "done", UnsubscribeFrame(Top(t).i))
    /\ UNCHANGED <<state, mu, subscribers, heap, middleware, dispatch, ret, calls,
                   initialState, applied, trace, issued, ls, ms, reducer,
                   reads>>

\* a callback that dispatches an action, a bounded number of times
CallbackDispatch(t) ==
    /\ At(t, "callback", "body") /\ CbKind(t) = "dispatch"
    /\ IF closures[Top(t).i].budget > 0
       THEN /\ closures' = [closures EXCEPT ![Top(t).i].budget = @ - 1]
            /\ issued' = [issued EXCEPT ![t]["Increment"] = @ + 1]
            /\ stack' = CallFrom(t, "done", Dispatch(t, "Increment"))
       ELSE /\ closures' = closures
            /\ issued' = issued
            /\ stack' = Return(t)
    /\ UNCHANGED <<state, mu, subscribers, heap, middleware, dispatch, ret, calls,
                   initialState, applied, trace, ls, ms, reducer,
                   reads>>

\* the call the callback made has returned: the callback returns
CallbackReturn(t) ==
    /\ At(t, "callback", "done")
    /\ stack' = Return(t)
    /\ UNCHANGED <<state, mu, subscribers, heap, middleware, dispatch, ret, calls,
                   closures, initialState, applied, trace, issued, ls, ms, reducer,
                   reads>>

---------------------------------------------------------------------------
\* The calls the goroutines make on the store.

RECURSIVE SumTo(_, _)
SumTo(f, n) == IF n = 0 THEN 0 ELSE f[n] + SumTo(f, n - 1)

\* the number of calls made so far
Calls == SumTo(calls, NumThreads)

CallDispatch(t, a) ==
    /\ ~Running(t)
    /\ calls' = [calls EXCEPT ![t] = @ + 1]
    /\ issued' = [issued EXCEPT ![t][a] = @ + 1]
    /\ trace' = [trace EXCEPT ![t] = <<>>]
    /\ stack' = Push(t, Dispatch(t, a))
    /\ UNCHANGED <<state, mu, subscribers, heap, middleware, dispatch, ret,
                   closures, initialState, applied, ls, ms, reducer,
                   reads>>

CallGetState(t) ==
    /\ ~Running(t)
    /\ calls' = [calls EXCEPT ![t] = @ + 1]
    /\ trace' = [trace EXCEPT ![t] = <<>>]
    /\ stack' = Push(t, GetStateFrame)
    /\ UNCHANGED <<state, mu, subscribers, heap, middleware, dispatch, ret,
                   closures, initialState, applied, issued, ls, ms, reducer,
                   reads>>

CallSubscribe(t, kind) ==
    /\ ~Running(t)
    /\ Len(closures) < MaxSubs
    /\ calls' = [calls EXCEPT ![t] = @ + 1]
    /\ trace' = [trace EXCEPT ![t] = <<>>]
    /\ closures' = Append(closures, Closure(kind, -1, FALSE))
    /\ stack' = Push(t, SubscribeFrame(Len(closures) + 1))
    /\ UNCHANGED <<state, mu, subscribers, heap, middleware, dispatch, ret,
                   initialState, applied, issued, ls, ms, reducer,
                   reads>>

CallUnsubscribe(t, id) ==
    /\ ~Running(t)
    /\ closures[id].ready
    /\ calls' = [calls EXCEPT ![t] = @ + 1]
    /\ trace' = [trace EXCEPT ![t] = <<>>]
    /\ closures' = [closures EXCEPT ![id].unsubs = @ + 1]
    /\ stack' = Push(t, UnsubscribeFrame(id))
    /\ UNCHANGED <<state, mu, subscribers, heap, middleware, dispatch, ret,
                   initialState, applied, issued, ls, ms, reducer,
                   reads>>

---------------------------------------------------------------------------
\* The Store with listeners (src/main.go, second program; src/unnamed/part_001
\* has the same Store without Subscribe).  It has no lock and is used by one
\* goroutine; ls.stack is that goroutine's call stack, ls.log the history of
\* the actions reduced so far.

LVariants == {"main.go", "part_001"}

\* NewStore(reducer, initialState)
LNewStore(variant, init) ==
    [variant |-> variant, state |-> init, listeners |-> <<>>,
     stack |-> <<>>, calls |-> 0, log |-> <<>>]

\* a frame of ls.stack.  Dispatch: act, the ranged slice snap and the loop
\* index i; a listener: its number i and its argument arg.  pos (history): for
\* Dispatch the number of its transition, for a listener the number of
\* transitions its argument includes.
LFrame(fn, pc, act, i, snap, arg, pos) ==
    [fn |-> fn, pc |-> pc, act |-> act, i |-> i, snap |-> snap, arg |-> arg, pos |-> pos]

LTop == ls.stack[Len(ls.stack)]

LAt(fn, pc) == ls.stack # <<>> /\ LTop.fn = fn /\ LTop.pc = pc

LDispatchFrame(a) == LFrame("Dispatch", "reduce", a, 0, <<>>, [Count |-> 0], 0)

\* s.listeners = append(s.listeners, listener)
LSubscribe(kind) ==
    /\ ls.variant = "main.go" /\ ls.stack = <<>>
    /\ Len(ls.listeners) < MaxSubs
    /\ ls' = [ls EXCEPT !.listeners = Append(@, [kind |-> kind, budget |-> MaxReentry]),
                        !.calls = @ + 1]
    /\ UNCHANGED <<state, mu, subscribers, heap, middleware, dispatch, stack, ret, calls,
                   closures, initialState, applied, trace, issued, ms, reducer,
                   reads>>

\* the goroutine calls Dispatch(action)
LCallDispatch(a) ==
    /\ ls.variant \in LVariants /\ ls.stack = <<>>
    /\ ls' = [ls EXCEPT !.stack = <<LDispatchFrame(a)>>, !.calls = @ + 1]
    /\ UNCHANGED <<state, mu, subscribers, heap, middleware, dispatch, stack, ret, calls,
                   closures, initialState, applied, trace, issued, ms, reducer,
                   reads>>

\* s.state = s.reducer(s.state, action), and s.listeners is evaluated for the loop
LDispatchReduce ==
    /\ LAt("Dispatch", "reduce")
    /\ ls' = [ls EXCEPT !.state = reduce(ls.state, LTop.act),
                        !.log = Append(@, LTop.act),
                        !.stack[Len(ls.stack)] =
                            [@ EXCEPT !.pc = "notify", !.snap = ls.listeners,
                                      !.pos = Len(ls.log) + 1]]
    /\ UNCHANGED <<state, mu, subscribers, heap, middleware, dispatch, stack, ret, calls,
                   closures, initialState, applied, trace, issued, ms, reducer,
                   reads>>

\* one iteration of the loop: listener(s.state)
LDispatchNotify ==
    /\ LAt("Dispatch", "notify")
    /\ LTop.i < Len(LTop.snap)
    /\ ls' = [ls EXCEPT !.stack =
                 Append([ls.stack EXCEPT ![Len(ls.stack)].i = @ + 1],
                        LFrame("listener", "body", NoAct, LTop.i + 1, <<>>, ls.state,
                               Len(ls.log)))]
    /\ UNCHANGED <<state, mu, subscribers, heap, middleware, dispatch, stack, ret, calls,
                   closures, initialState, applied, trace, issued, ms, reducer,
                   reads>>

\* the loop is over: Dispatch returns
LDispatchReturn ==
    /\ LAt("Dispatch", "notify")
    /\ LTop.i >= Len(LTop.snap)
    /\ ls' = [ls EXCEPT !.stack = Pop(@)]
    /\ UNCHANGED <<state, mu, subscribers, heap, middleware, dispatch, stack, ret, calls,
                   closures, initialState, applied, trace, issued, ms, reducer,
                   reads>>

\* the listener of run(): it formats the state it was given and returns
LListenerPlain ==
    /\ LAt("listener", "body") /\ ls.listeners[LTop.i].kind = "plain"
    /\ ls' = [ls EXCEPT !.stack = Pop(@)]
    /\ UNCHANGED <<state, mu, subscribers, heap, middleware, dispatch, stack, ret, calls,
                   closures, initialState, applied, trace, issued, ms, reducer,
                   reads>>

\* a listener that dispatches an action, a bounded number of times
LListenerDispatch ==
    /\ LAt("listener", "body") /\ ls.listeners[LTop.i].kind = "dispatch"
    /\ IF ls.listeners[LTop.i].budget > 0
       THEN ls' = [ls EXCEPT !.listeners[LTop.i].budget = @ - 1,
                             !.stack = Append([ls.stack EXCEPT ![Len(ls.stack)].pc = "done"],
                                              LDispatchFrame("Increment"))]
       ELSE ls' = [ls EXCEPT !.stack = Pop(@)]
    /\ UNCHANGED <<state, mu, subscribers, heap, middleware, dispatch, stack, ret, calls,
                   closures, initialState, applied, trace, issued, ms, reducer,
                   reads>>

\* the Dispatch the listener called has returned: the listener returns
LListenerReturn ==
    /\ LAt("listener", "done")
    /\ ls' = [ls EXCEPT !.stack = Pop(@)]
    /\ UNCHANGED <<state, mu, subscribers, heap, middleware, dispatch, stack, ret, calls,
                   closures, initialState, applied, trace, issued, ms, reducer,
                   reads>>

---------------------------------------------------------------------------
\* Concurrent use: the goroutines dispatch actions to and read the state of
\* a store with one subscriber.

InitConc == Started([Count |-> 0], <<>>, <<"plain">>) /\ ls = NoListenerStore /\ ms = NoMiddlewareStore

NextConc ==
    \E t \in Threads :
        \/ Calls < MaxCalls /\ \E a \in Actions : CallDispatch(t, a)
        \/ Calls < MaxCalls /\ CallGetState(t)
        \/ LockArrive(t)
        \/ LockAcquire(t)
        \/ DispatchInternalRead(t)
        \/ DispatchInternalWrite(t)
        \/ DispatchInternalUnlock(t)
        \/ DispatchInternalRLock(t)
        \/ DispatchInternalSnapshot(t)
        \/ DispatchInternalRUnlock(t)
        \/ DispatchInternalNotify(t)
        \/ DispatchInternalReturn(t)
        \/ GetStateRLock(t)
        \/ GetStateCopy(t)
        \/ GetStateReturn(t)
        \/ CallbackPlain(t)

SpecConc == InitConc /\ [][NextConc]_vars

---------------------------------------------------------------------------
\* Concurrent increments: every goroutine dispatches IncrementAction MaxIncr
\* times to a store created with Count = 0.

InitIncr == Started([Count |-> 0], <<>>, <<"plain">>) /\ ls = NoListenerStore /\ ms = NoMiddlewareStore

NextIncr ==
    \E t \in Threads :
        \/ calls[t] < MaxIncr /\ CallDispatch(t, "Increment")
        \/ LockArrive(t)
        \/ LockAcquire(t)
        \/ DispatchInternalRead(t)
        \/ DispatchInternalWrite(t)
        \/ DispatchInternalUnlock(t)
        \/ DispatchInternalRLock(t)
        \/ DispatchInternalSnapshot(t)
        \/ DispatchInternalRUnlock(t)
        \/ DispatchInternalNotify(t)
        \/ DispatchInternalReturn(t)
        \/ CallbackPlain(t)

SpecIncr == InitIncr /\ [][NextIncr]_vars

---------------------------------------------------------------------------
\* One goroutine dispatches a sequence of actions to a store built with one
\* of several middleware lists and initial counts.

Main == 1

MiddlewareLists ==
    {<<>>, <<"Logging">>, <<"A">>, <<"A", "B">>, <<"B", "A">>,
     <<"A", "Logging">>, <<"Logging", "A", "B">>}

InitialCounts == {-1, 0, 2}

InitSeq ==
    \E c \in InitialCounts : \E mw \in MiddlewareLists :
        Started([Count |-> c], mw, <<"plain">>) /\ ls = NoListenerStore /\ ms = NoMiddlewareStore

NextSeq ==
    \/ Calls < MaxSeqCalls /\ \E a \in Actions : CallDispatch(Main, a)
    \/ Calls < MaxSeqCalls /\ CallGetState(Main)
    \/ LockArrive(Main)
    \/ LockAcquire(Main)
    \/ DispatchInternalRead(Main)
    \/ DispatchInternalWrite(Main)
    \/ DispatchInternalUnlock(Main)
    \/ DispatchInternalRLock(Main)
    \/ DispatchInternalSnapshot(Main)
    \/ DispatchInternalRUnlock(Main)
    \/ DispatchInternalNotify(Main)
    \/ DispatchInternalReturn(Main)
    \/ GetStateRLock(Main)
    \/ GetStateCopy(Main)
    \/ GetStateReturn(Main)
    \/ LoggingGetPrev(Main)
    \/ LoggingNext(Main)
    \/ LoggingGetNew(Main)
    \/ LoggingReturn(Main)
    \/ ProbeBefore(Main)
    \/ ProbeAfter(Main)
    \/ CallbackPlain(Main)

SpecSeq == InitSeq /\ [][NextSeq]_vars

---------------------------------------------------------------------------
\* One goroutine subscribes, unsubscribes and dispatches; a callback may call
\* its own unsubscribe closure when it is notified.

InitSubs == NewStore([Count |-> 0], <<>>) /\ ls = NoListenerStore /\ ms = NoMiddlewareStore

NextSubs ==
    \/ Calls < MaxSeqCalls /\ CallDispatch(Main, "Increment")
    \/ Calls < MaxSeqCalls /\ \E kind \in {"plain", "unsubscribe"} : CallSubscribe(Main, kind)
    \/ Calls < MaxSeqCalls /\ \E id \in 1..Len(closures) : CallUnsubscribe(Main, id)
    \/ LockArrive(Main)
    \/ LockAcquire(Main)
    \/ DispatchInternalRead(Main)
    \/ DispatchInternalWrite(Main)
    \/ DispatchInternalUnlock(Main)
    \/ DispatchInternalRLock(Main)
    \/ DispatchInternalSnapshot(Main)
    \/ DispatchInternalRUnlock(Main)
    \/ DispatchInternalNotify(Main)
    \/ DispatchInternalReturn(Main)
    \/ SubscribeAppend(Main)
    \/ SubscribeReturn(Main)
    \/ UnsubscribeRemove(Main)
    \/ UnsubscribeReturn(Main)
    \/ CallbackPlain(Main)
    \/ CallbackUnsubscribe(Main)
    \/ CallbackReturn(Main)

SpecSubs == InitSubs /\ [][NextSubs]_vars

---------------------------------------------------------------------------
\* Definitions the properties share.

AllIdle == \A t \in Threads : ~Running(t)

RECURSIVE Replay(_)
\* the state after the first n transitions of the history
Replay(n) == IF n = 0 THEN initialState ELSE reduce(Replay(n - 1), applied[n].act)

\* the frames of t's stack that are calls of fn at pc
FramesAt(t, fn, pc) ==
    {j \in 1..Len(stack[t]) : stack[t][j].fn = fn /\ stack[t][j].pc = pc}

---------------------------------------------------------------------------
\* C1.  When every goroutine has called Dispatch(IncrementAction) K times on a
\* store created with Count = 0 and all the calls have returned, Count is
\* NumThreads * K: no update is lost, whatever the interleaving.
C1_NoLostUpdates ==
    \A K \in 1..MaxIncr :
        (AllIdle /\ \A t \in Threads : calls[t] = K) => state.Count = NumThreads * K

C1_Witness ==
    /\ AllIdle
    /\ \A t \in Threads : calls[t] = MaxIncr /\ issued[t]["Increment"] = MaxIncr
    /\ state.Count = NumThreads * MaxIncr

---------------------------------------------------------------------------
\* The middleware and reducer events of the call goroutine t made itself, as
\* <<part, stage>> pairs in the order they happened.

IsPipelineEvent(ev) == ev.lvl = 0 /\ ev.e \in {"before", "after", "reducer"}

PipelineEvents(t) ==
    LET evs == SelectSeq(trace[t], IsPipelineEvent)
    IN [j \in 1..Len(evs) |->
           IF evs[j].e = "reducer" THEN <<"reducer", "reducer">>
           ELSE <<evs[j].e, evs[j].k>>]

\* m0-before, ..., mn-1-before, reducer, mn-1-after, ..., m0-after
OnionOrder(mw) ==
    LET n == Len(mw)
    IN [j \in 1..(2 * n + 1) |->
           IF j <= n THEN <<"before", mw[j]>>
           ELSE IF j = n + 1 THEN <<"reducer", "reducer">>
           ELSE <<"after", mw[2 * n + 2 - j]>>]

IsPrefix(p, q) == Len(p) <= Len(q) /\ \A j \in 1..Len(p) : p[j] = q[j]

\* C2.  With middleware [m0, ..., mn-1] every Dispatch runs the before-parts
\* in the order m0 ... mn-1, then the reducer, then the after-parts in the
\* order mn-1 ... m0: at every moment of a Dispatch what has run so far is a
\* prefix of that order, and all of it has run when Dispatch returns.
C2_FirstMiddlewareOutermost ==
    /\ IsPrefix(PipelineEvents(Main), OnionOrder(middleware))
    /\ (~Running(Main) /\ trace[Main] # <<>>)
           => PipelineEvents(Main) = OnionOrder(middleware)

C2_Witness ==
    /\ ~Running(Main)
    /\ middleware = <<"A", "B">>
    /\ PipelineEvents(Main) = <<<<"before", "A">>, <<"before", "B">>, <<"reducer", "reducer">>,
                                <<"after", "B">>, <<"after", "A">>>>

---------------------------------------------------------------------------
\* C3.  The first call of the closure Subscribe(cb) returned removes exactly cb
\* from the subscriber list, leaving the other callbacks registered in the same
\* order, and no Dispatch call made after it has returned invokes cb.

Registered == Elems(heap, subscribers)

Without(list, id) ==
    LET keep(x) == x # id
    IN SelectSeq(list, keep)

\* goroutine t's step is the removal made by an unsubscribe closure
RemovalBy(t) ==
    /\ At(t, "unsubscribe", "remove")
    /\ Running(t)' /\ Top(t)'.fn = "unsubscribe" /\ Top(t)'.pc = "Unlock"

C3_RemovesExactlyItsCallback ==
    [][\A t \in Threads :
          /\ (RemovalBy(t) /\ closures[Top(t).i].unsubs = 1)
                 => Registered' = Without(Registered, Top(t).i)
          /\ \A j \in 1..Len(stack[t]') :
                 (stack[t]'[j].fn = "dispatchInternal" /\ stack[t]'[j].called # <<>>)
                     => stack[t]'[j].called[Len(stack[t]'[j].called)] \notin stack[t]'[j].reg.gone
      ]_vars

---------------------------------------------------------------------------
\* C4.  Calling the same unsubscribe closure a second time changes nothing:
\* the subscriber list stays as it is, and no other subscriber is removed.
C4_UnsubscribeIdempotent ==
    [][\A t \in Threads :
          (RemovalBy(t) /\ closures[Top(t).i].unsubs >= 2) => Registered' = Registered
      ]_vars

---------------------------------------------------------------------------
\* C5.  A Dispatch invokes each callback that was registered when it started
\* exactly once, in the order of registration: when its notification loop is
\* over, the callbacks it has invoked are the list registered at its start.
C5_NotifiesRegisteredInOrder ==
    \A t \in Threads : \A j \in FramesAt(t, "dispatchInternal", "notify") :
        stack[t][j].i >= stack[t][j].snap.len
            => stack[t][j].called = stack[t][j].reg.list

---------------------------------------------------------------------------
\* C7.  The value GetState is about to return is the state after a whole
\* number of transitions, in the order the store made them, and that number is
\* not smaller than the number of transitions made before the call began.
C7_GetStateReturnsCompletedState ==
    \A t \in Threads : \A j \in FramesAt(t, "GetState", "RUnlock") :
        /\ stack[t][j].i <= stack[t][j].seq
        /\ stack[t][j].seq <= Len(applied)
        /\ stack[t][j].tmp = Replay(stack[t][j].seq)

C7_Witness ==
    \E t \in Threads :
        /\ At(t, "GetState", "RUnlock")
        /\ Top(t).seq > Top(t).i
        /\ \E u \in Threads \ {t} : At(u, "dispatchInternal", "LockWait")
        /\ Top(t).tmp = Replay(Top(t).seq)

---------------------------------------------------------------------------
\* C9.  After any sequence of Increment / Decrement actions dispatched by one
\* goroutine, Count is the initial count plus the number of Increments minus
\* the number of Decrements, whatever the middleware list of the store.
C9_CountIsSumOfActions ==
    ~Running(Main) =>
        state.Count = initialState.Count + issued[Main]["Increment"]
                                         - issued[Main]["Decrement"]

C9_Witness ==
    /\ ~Running(Main)
    /\ middleware = <<"Logging">>
    /\ initialState.Count = 0
    /\ issued[Main]["Increment"] = 2 /\ issued[Main]["Decrement"] = 1
    /\ state.Count = 1

---------------------------------------------------------------------------
\* C10.  State transitions exclude each other and are totally ordered: at most
\* one dispatch is between its read of the old state and its write of the new
\* one, the state is always the result of applying the transitions made so far
\* one after another, each Dispatch call makes exactly one transition, and the
\* transitions of one goroutine are in the order of its calls.

\* the Dispatch calls that have read the old state and not yet written
Writing == {t \in Threads : FramesAt(t, "dispatchInternal", "write") # {}}

TransitionsOf(t, a) == {n \in 1..Len(applied) : applied[n].t = t /\ applied[n].act = a}

C10_TransitionsTotallyOrdered ==
    /\ Cardinality(Writing) <= 1
    /\ state = Replay(Len(applied))
    /\ \A m, n \in 1..Len(applied) :
           (m < n /\ applied[m].t = applied[n].t) => applied[m].seq < applied[n].seq
    /\ AllIdle =>
           \A t \in Threads : \A a \in Actions :
               Cardinality(TransitionsOf(t, a)) = issued[t][a]

C10_Witness ==
    /\ AllIdle
    /\ Len(applied) = MaxCalls
    /\ \E m, n \in 1..Len(applied) :
           m + 1 < n /\ applied[m].t = applied[n].t /\ applied[m + 1].t # applied[m].t
    /\ state = Replay(Len(applied))

---------------------------------------------------------------------------
\* Re-entrant use: the goroutines dispatch to a store whose subscriber, when
\* notified, calls GetState, Subscribe, its own unsubscribe closure or
\* Dispatch; or to the store of run(), with LoggingMiddleware (which calls
\* GetState before and after next) and a subscriber that calls GetState.

ReentrantKinds == {"getstate", "subscribe", "unsubscribe", "dispatch"}

InitReenter ==
    /\ \/ \E kind \in ReentrantKinds : Started([Count |-> 0], <<>>, <<kind>>)
       \/ Started([Count |-> 0], <<"Logging">>, <<"getstate">>)
    /\ ls = NoListenerStore /\ ms = NoMiddlewareStore

\* the steps of a goroutine inside a call
StepReenter(t) ==
    \/ LockArrive(t)
    \/ LockAcquire(t)
    \/ DispatchInternalRead(t)
    \/ DispatchInternalWrite(t)
    \/ DispatchInternalUnlock(t)
    \/ DispatchInternalRLock(t)
    \/ DispatchInternalSnapshot(t)
    \/ DispatchInternalRUnlock(t)
    \/ DispatchInternalNotify(t)
    \/ DispatchInternalReturn(t)
    \/ GetStateRLock(t)
    \/ GetStateCopy(t)
    \/ GetStateReturn(t)
    \/ SubscribeAppend(t)
    \/ SubscribeReturn(t)
    \/ UnsubscribeRemove(t)
    \/ UnsubscribeReturn(t)
    \/ LoggingGetPrev(t)
    \/ LoggingNext(t)
    \/ LoggingGetNew(t)
    \/ LoggingReturn(t)
    \/ CallbackPlain(t)
    \/ CallbackGetState(t)
    \/ CallbackSubscribe(t)
    \/ CallbackUnsubscribe(t)
    \/ CallbackDispatch(t)
    \/ CallbackReturn(t)

NextReenter ==
    \E t \in Threads :
        \/ Calls < MaxReenterCalls /\ CallDispatch(t, "Increment")
        \/ StepReenter(t)

SpecReenter == InitReenter /\ [][NextReenter]_vars

---------------------------------------------------------------------------
\* C8.  No lock of the store is held by a goroutine while it runs a
\* middleware or a subscriber callback, and a callback or middleware that
\* calls back into the store never blocks for ever: while a call is in
\* progress, some goroutine inside a call can take a step.

UserCode == {"callback", "Logging", "A", "B"}

C8_NoLockHeldInCallbacks ==
    /\ \A t \in Threads : (Running(t) /\ Top(t).fn \in UserCode) => ~HoldsLock(t)
    /\ (\E t \in Threads : Running(t))
           => \E t \in Threads : Running(t) /\ ENABLED StepReenter(t)

C8_Witness ==
    \E t \in Threads :
        /\ Len(stack[t]) >= 3
        /\ stack[t][Len(stack[t]) - 1].fn = "callback"
        /\ Top(t).fn \in {"Subscribe", "unsubscribe", "dispatchInternal"}
        /\ Top(t).pc \in {"append", "remove", "write"}
        /\ mu.writer = t
        /\ \E u \in Threads \ {t} : Running(u)

---------------------------------------------------------------------------
\* Notification in every Store that has listeners: the generic Store used as
\* in SpecReenter, and the Store with listeners of src/main.go (with a listener
\* that may dispatch) and of src/unnamed/part_001 (which has no Subscribe).

InitListener ==
    /\ NewStore([Count |-> 0], <<>>)
    /\ \E v \in LVariants : ls = LNewStore(v, [Count |-> 0])
    /\ ms = NoMiddlewareStore

InitNotify == InitReenter \/ InitListener

NextListener ==
    \/ ls.calls < MaxSeqCalls /\ \E kind \in {"plain", "dispatch"} : LSubscribe(kind)
    \/ ls.calls < MaxSeqCalls /\ \E a \in Actions : LCallDispatch(a)
    \/ LDispatchReduce
    \/ LDispatchNotify
    \/ LDispatchReturn
    \/ LListenerPlain
    \/ LListenerDispatch
    \/ LListenerReturn

NextNotify ==
    \/ ls.variant = "none" /\ NextReenter
    \/ NextListener

SpecNotify == InitNotify /\ [][NextNotify]_vars

---------------------------------------------------------------------------
\* C6.  A callback runs only after the Dispatch that notifies it has replaced
\* the state: while a callback of a Dispatch is running, that Dispatch is in
\* its notification loop, its transition is part of the history, and the
\* stored state is the result of the whole history (a listener that is handed
\* the state is handed one that includes the transition).

\* the innermost call of fn below frame j of a stack
Enclosing(stk, j, fn) ==
    LET below == {m \in 1..(j - 1) : stk[m].fn = fn}
    IN stk[CHOOSE m \in below : \A m2 \in below : m2 <= m]

RECURSIVE LReplay(_)
LReplay(n) == IF n = 0 THEN [Count |-> 0] ELSE reduce(LReplay(n - 1), ls.log[n])

C6_NotifiedAfterStateReplaced ==
    /\ \A t \in Threads : \A j \in 1..Len(stack[t]) :
           stack[t][j].fn = "callback" =>
               LET d == Enclosing(stack[t], j, "dispatchInternal")
               IN /\ d.pc = "notify"
                  /\ \E n \in 1..Len(applied) :
                         applied[n] = [t |-> t, seq |-> d.seq, act |-> d.act]
                  /\ state = Replay(Len(applied))
    /\ \A j \in 1..Len(ls.stack) :
           ls.stack[j].fn = "listener" =>
               LET d == Enclosing(ls.stack, j, "Dispatch")
               IN /\ d.pc = "notify"
                  /\ 1 <= d.pos /\ d.pos <= ls.stack[j].pos
                  /\ ls.log[d.pos] = d.act
                  /\ ls.stack[j].arg = LReplay(ls.stack[j].pos)
                  /\ ls.state = LReplay(Len(ls.log))

\* a callback of the generic Store is running while another goroutine is
\* about to write the state
C6_Witness ==
    \E t \in Threads :
        /\ At(t, "callback", "body")
        /\ \E u \in Threads \ {t} : At(u, "dispatchInternal", "write")
        /\ \E n \in 1..Len(applied) : applied[n].t = t

---------------------------------------------------------------------------
\* Reading: the goroutines dispatch actions and read the state, and a
\* goroutine may change the State value that GetState returned to it.

\* the caller changes the Count of the value it was returned (once for each
\* value returned); State is a struct, so the caller's variable is storage of
\* its own
CallerMutates(t) ==
    /\ ~Running(t)
    /\ reads[t] # NoRead /\ ret[t] = reads[t].val
    /\ ret' = [ret EXCEPT ![t].Count = @ + 10]
    /\ UNCHANGED <<state, mu, subscribers, heap, middleware, dispatch, stack, calls,
                   closures, initialState, applied, trace, issued, ls, ms, reducer,
                   reads>>

InitRead == Started([Count |-> 0], <<>>, <<"plain">>) /\ ls = NoListenerStore /\ ms = NoMiddlewareStore

NextRead ==
    \E t \in Threads :
        \/ Calls < MaxCalls /\ \E a \in Actions : CallDispatch(t, a)
        \/ Calls < MaxCalls /\ CallGetState(t)
        \/ CallerMutates(t)
        \/ LockArrive(t)
        \/ LockAcquire(t)
        \/ DispatchInternalRead(t)
        \/ DispatchInternalWrite(t)
        \/ DispatchInternalUnlock(t)
        \/ DispatchInternalRLock(t)
        \/ DispatchInternalSnapshot(t)
        \/ DispatchInternalRUnlock(t)
        \/ DispatchInternalNotify(t)
        \/ DispatchInternalReturn(t)
        \/ GetStateRLock(t)
        \/ GetStateCopy(t)
        \/ GetStateReturn(t)
        \/ CallbackPlain(t)

SpecRead == InitRead /\ [][NextRead]_vars

\* goroutine t's step is a step of GetState
GetStateStep(t) == Running(t) /\ Top(t).fn = "GetState" /\ stack[t]' # stack[t]

\* goroutine t's step changes the value GetState returned to it
MutationStep(t) == stack[t]' = stack[t] /\ ret[t]' # ret[t]

\* C11.  GetState is a pure read: no step of GetState changes the stored state
\* or the subscriber list; a GetState about to return after as many
\* transitions as the goroutine's previous GetState returns the same value as
\* that one, whether or not the caller changed the value it was returned; and
\* the caller changing a returned value leaves the stored state as it is.
C11_GetStateIsPureRead ==
    /\ [][\A t \in Threads :
             /\ GetStateStep(t) => UNCHANGED <<state, subscribers, heap>>
             /\ MutationStep(t) => UNCHANGED <<state, subscribers, heap, reads>>
         ]_vars
    /\ [](\A t \in Threads : \A j \in FramesAt(t, "GetState", "RUnlock") :
             /\ stack[t][j].seq = reads[t].seq => stack[t][j].tmp = reads[t].val
             /\ stack[t][j].tmp = state)

C11_Witness ==
    \E t \in Threads :
        /\ At(t, "GetState", "RUnlock")
        /\ Top(t).seq = reads[t].seq
        /\ Top(t).seq > 0
        /\ ret[t] # reads[t].val
        /\ Top(t).tmp = reads[t].val

---------------------------------------------------------------------------
\* The Store with middleware of src/main.go (first program).  It has no lock
\* and no subscribers and is used by one goroutine; ms.stack is that
\* goroutine's call stack, ms.trace the events of its current Dispatch call,
\* ms.log the history of the actions reduced so far.

\* for _, middleware := range s.middleware { dispatch = middleware(s, dispatch) }
MApplyMiddleware(mw, d) == applyMiddlewareUpTo(mw, 1, d)

\* NewStore(reducer, initialState, middleware...)
MNewStore(init, mw) ==
    [active |-> TRUE, state |-> init, middleware |-> mw,
     dispatch |-> MApplyMiddleware(mw, dispatchInternal),
     stack |-> <<>>, calls |-> 0, trace |-> <<>>, log |-> <<>>]

MFrame(fn, pc, act, next) == [fn |-> fn, pc |-> pc, act |-> act, next |-> next]

MTop == ms.stack[Len(ms.stack)]

MAt(fn, pc) == ms.stack # <<>> /\ MTop.fn = fn /\ MTop.pc = pc

\* calling a Dispatch closure: its outermost stage runs with the rest as next
MInvoke(p, a) == MFrame(Head(p), "before", a, Tail(p))

MEvent(e, k, v) == [e |-> e, k |-> k, v |-> v, lvl |-> 0]

\* the goroutine calls Dispatch(action): s.dispatch(action)
MCallDispatch(a) ==
    /\ ms.active /\ ms.stack = <<>>
    /\ ms' = [ms EXCEPT !.stack = <<MInvoke(ms.dispatch, a)>>, !.calls = @ + 1,
                        !.trace = <<>>]
    /\ UNCHANGED <<state, mu, subscribers, heap, middleware, dispatch, stack, ret, calls,
                   closures, initialState, applied, trace, issued, ls, reducer, reads>>

\* prevState := store.GetState(); log.Printf(... Previous State ...); next(action)
MLoggingBefore ==
    /\ MAt("Logging", "before")
    /\ ms' = [ms EXCEPT !.trace = Append(@, MEvent("before", "Logging", ms.state.Count)),
                        !.stack = Append([ms.stack EXCEPT ![Len(ms.stack)].pc = "after"],
                                         MInvoke(MTop.next, MTop.act))]
    /\ UNCHANGED <<state, mu, subscribers, heap, middleware, dispatch, stack, ret, calls,
                   closures, initialState, applied, trace, issued, ls, reducer, reads>>

\* newState := store.GetState(); log.Printf(... New State ...); return
MLoggingAfter ==
    /\ MAt("Logging", "after")
    /\ ms' = [ms EXCEPT !.trace = Append(@, MEvent("after", "Logging", ms.state.Count)),
                        !.stack = Pop(@)]
    /\ UNCHANGED <<state, mu, subscribers, heap, middleware, dispatch, stack, ret, calls,
                   closures, initialState, applied, trace, issued, ls, reducer, reads>>

\* a probe records its before-part and calls next(action)
MProbeBefore ==
    /\ ms.stack # <<>> /\ MTop.fn \in Probes /\ MTop.pc = "before"
    /\ ms' = [ms EXCEPT !.trace = Append(@, MEvent("before", MTop.fn, 0)),
                        !.stack = Append([ms.stack EXCEPT ![Len(ms.stack)].pc = "after"],
                                         MInvoke(MTop.next, MTop.act))]
    /\ UNCHANGED <<state, mu, subscribers, heap, middleware, dispatch, stack, ret, calls,
                   closures, initialState, applied, trace, issued, ls, reducer, reads>>

\* a probe records its after-part and returns
MProbeAfter ==
    /\ ms.stack # <<>> /\ MTop.fn \in Probes /\ MTop.pc = "after"
    /\ ms' = [ms EXCEPT !.trace = Append(@, MEvent("after", MTop.fn, 0)),
                        !.stack = Pop(@)]
    /\ UNCHANGED <<state, mu, subscribers, heap, middleware, dispatch, stack, ret, calls,
                   closures, initialState, applied, trace, issued, ls, reducer, reads>>

\* dispatchInternal: s.state = s.reducer(s.state, action)
MDispatchInternal ==
    /\ MAt("dispatchInternal", "before")
    /\ ms' = [ms EXCEPT !.state = reduce(ms.state, MTop.act),
                        !.log = Append(@, MTop.act),
                        !.trace = Append(@, MEvent("reducer", MTop.act, 0)),
                        !.stack = Pop(@)]
    /\ UNCHANGED <<state, mu, subscribers, heap, middleware, dispatch, stack, ret, calls,
                   closures, initialState, applied, trace, issued, ls, reducer, reads>>

InitMw ==
    /\ NewStore([Count |-> 0], <<>>)
    /\ ls = NoListenerStore
    /\ \E mw \in MiddlewareLists : ms = MNewStore([Count |-> 0], mw)

NextMw ==
    \/ ms.calls < MaxSeqCalls /\ \E a \in Actions : MCallDispatch(a)
    \/ MLoggingBefore
    \/ MLoggingAfter
    \/ MProbeBefore
    \/ MProbeAfter
    \/ MDispatchInternal

SpecMw == InitMw /\ [][NextMw]_vars

\* the middleware and reducer events of the current Dispatch call, as
\* <<part, stage>> pairs in the order they happened
MPipelineEvents ==
    [j \in 1..Len(ms.trace) |->
        IF ms.trace[j].e = "reducer" THEN <<"reducer", "reducer">>
        ELSE <<ms.trace[j].e, ms.trace[j].k>>]

\* C12.  In the Store with middleware of src/main.go the first middleware is
\* outermost: with middleware [m0, ..., mn-1] what a Dispatch has run so far is
\* a prefix of m0-before ... mn-1-before, reducer, mn-1-after ... m0-after, and
\* all of it when the Dispatch has returned (A-before, B-before, reducer,
\* B-after, A-after for A then B).
C12_MainFirstMiddlewareOutermost ==
    ms.active =>
        /\ IsPrefix(MPipelineEvents, OnionOrder(ms.middleware))
        /\ (ms.stack = <<>> /\ ms.trace # <<>>)
               => MPipelineEvents = OnionOrder(ms.middleware)

---------------------------------------------------------------------------
\* the callbacks a slice header held in a local stands for
Snapshot(f) == Elems(heap, f.snap)

\* frame j of goroutine t is a dispatchInternal in its notification loop, in
\* this state and in the next
Notifying(t, j) ==
    /\ j <= Len(stack[t]) /\ j <= Len(stack[t]')
    /\ stack[t][j].fn = "dispatchInternal" /\ stack[t][j].pc = "notify"
    /\ stack[t]'[j].fn = "dispatchInternal" /\ stack[t]'[j].pc = "notify"

\* C13.  The subscriber list a dispatch has snapshotted is not altered while
\* the dispatch is notifying: no step (a Subscribe or an unsubscribe of any
\* goroutine, or of one of its callbacks) changes the callbacks the snapshot
\* stands for, and when the loop is over the dispatch has invoked exactly
\* those, each once and in order.
C13_SnapshotNotAltered ==
    /\ [][\A t \in Threads : \A j \in 1..Len(stack[t]) :
             Notifying(t, j) => Snapshot(stack[t][j])' = Snapshot(stack[t][j])
         ]_vars
    /\ [](\A t \in Threads : \A j \in FramesAt(t, "dispatchInternal", "notify") :
             stack[t][j].i >= stack[t][j].snap.len
                 => stack[t][j].called = Snapshot(stack[t][j]))

---------------------------------------------------------------------------
\* Logging: a store whose only middleware is LoggingMiddleware, used by one
\* goroutine: the generic Store as run() of src/unnamed/part_000 builds it, or
\* the Store of src/main.go as its run() builds it.

InitLogging ==
    \E c \in InitialCounts :
        \/ /\ Started([Count |-> c], <<"Logging">>, <<"plain">>)
           /\ ls = NoListenerStore /\ ms = NoMiddlewareStore
        \/ /\ NewStore([Count |-> c], <<>>)
           /\ ls = NoListenerStore
           /\ ms = MNewStore([Count |-> c], <<"Logging">>)

NextLogging ==
    \/ ~ms.active /\ Calls < MaxSeqCalls /\ \E a \in Actions : CallDispatch(Main, a)
    \/ ~ms.active /\ Calls < MaxSeqCalls /\ CallGetState(Main)
    \/ LockArrive(Main)
    \/ LockAcquire(Main)
    \/ DispatchInternalRead(Main)
    \/ DispatchInternalWrite(Main)
    \/ DispatchInternalUnlock(Main)
    \/ DispatchInternalRLock(Main)
    \/ DispatchInternalSnapshot(Main)
    \/ DispatchInternalRUnlock(Main)
    \/ DispatchInternalNotify(Main)
    \/ DispatchInternalReturn(Main)
    \/ GetStateRLock(Main)
    \/ GetStateCopy(Main)
    \/ GetStateReturn(Main)
    \/ LoggingGetPrev(Main)
    \/ LoggingNext(Main)
    \/ LoggingGetNew(Main)
    \/ LoggingReturn(Main)
    \/ CallbackPlain(Main)
    \/ ms.calls < MaxSeqCalls /\ \E a \in Actions : MCallDispatch(a)
    \/ MLoggingBefore
    \/ MLoggingAfter
    \/ MDispatchInternal

SpecLogging == InitLogging /\ [][NextLogging]_vars

RECURSIVE MReplay(_)
\* the state of the Store of src/main.go after its first n transitions
MReplay(n) == IF n = 0 THEN initialState ELSE reduce(MReplay(n - 1), ms.log[n])

\* What one Dispatch has logged and reduced (evs), for a store whose history
\* of transitions is hist, replayed by replay: a Previous State entry, then
\* one reducer invocation, then a New State entry, and nothing else; the
\* reducer is invoked with the dispatched action act; the previous state
\* logged is the state the reducer was applied to, the new state logged is
\* its result.
LoggedAround(evs, hist, replay(_), act, returned) ==
    LET n == Len(hist)
    IN /\ Len(evs) <= 3
       /\ returned => Len(evs) = 3
       /\ Len(evs) >= 1 =>
              /\ evs[1].e = "before" /\ evs[1].k = "Logging"
              /\ evs[1].v = replay(IF Len(evs) = 1 THEN n ELSE n - 1).Count
       /\ Len(evs) >= 2 =>
              /\ evs[2].e = "reducer" /\ evs[2].k = hist[n]
              /\ ~returned => evs[2].k = act
       /\ Len(evs) = 3 =>
              /\ evs[3].e = "after" /\ evs[3].k = "Logging"
              /\ evs[3].v = replay(n).Count
              /\ replay(n) = reduce(replay(n - 1), hist[n])

\* the actions of the transitions made so far
AppliedActions == [n \in 1..Len(applied) |-> applied[n].act]

\* C14.  With LoggingMiddleware as the only middleware, a Dispatch produces
\* one Previous State entry, then one reducer invocation, then one New State
\* entry; the entries show the state the reducer was applied to and its
\* result; the action reaches the reducer unchanged; and the stored state is
\* changed by the reducer only (it is the replay of the reducer invocations,
\* one for each Dispatch that has got that far).
C14_LoggingBracketsReducer ==
    /\ (~ms.active /\ trace[Main] # <<>>) =>
           /\ LoggedAround(SelectSeq(trace[Main], IsPipelineEvent), AppliedActions, Replay,
                           IF Running(Main) THEN stack[Main][1].act ELSE NoAct,
                           ~Running(Main))
           /\ state = Replay(Len(applied))
           /\ ~Running(Main) =>
                  Len(applied) = issued[Main]["Increment"] + issued[Main]["Decrement"]
    /\ (ms.active /\ ms.trace # <<>>) =>
           /\ LoggedAround(ms.trace, ms.log, MReplay,
                           IF ms.stack # <<>> THEN ms.stack[1].act ELSE NoAct,
                           ms.stack = <<>>)
           /\ ms.state = MReplay(Len(ms.log))
           /\ ms.stack = <<>> => Len(ms.log) = ms.calls

C14_Witness ==
    /\ ~ms.active /\ ~Running(Main)
    /\ middleware = <<"Logging">>
    /\ Len(applied) = 2
    /\ LET evs == SelectSeq(trace[Main], IsPipelineEvent)
       IN /\ Len(evs) = 3
          /\ evs[1].v = initialState.Count + 1
          /\ evs[2].k = "Increment"
          /\ evs[3].v = initialState.Count + 2

---------------------------------------------------------------------------
\* A middleware that does not call next: Drop returns at once for a
\* Decrement action, and for any other action runs like a probe.

\* the actions Drop does not pass on
Swallowed == {"Decrement"}

\* func(action) { if swallowed(action) { return }; next(action); ... }
DropBefore(t) ==
    /\ At(t, "Drop", "before")
    /\ IF Top(t).act \in Swallowed
       THEN /\ trace' = Log(t, Event("swallowed", "Drop", 0, t))
            /\ stack' = Return(t)
       ELSE /\ trace' = Log(t, Event("before", "Drop", 0, t))
            /\ stack' = CallFrom(t, "after",
                                 Invoke(Top(t).next, Top(t).act, Top(t).seq, Top(t).reg))
    /\ UNCHANGED <<state, mu, subscribers, heap, middleware, dispatch, ret, calls,
                   closures, initialState, applied, issued, ls, ms, reducer, reads>>

\* next has returned: Drop returns
DropAfter(t) ==
    /\ At(t, "Drop", "after")
    /\ trace' = Log(t, Event("after", "Drop", 0, t))
    /\ stack' = Return(t)
    /\ UNCHANGED <<state, mu, subscribers, heap, middleware, dispatch, ret, calls,
                   closures, initialState, applied, issued, ls, ms, reducer, reads>>

DropLists == {<<"Drop">>, <<"A", "Drop">>, <<"Drop", "A">>, <<"A", "Drop", "B">>}

InitDrop ==
    /\ \E mw \in DropLists : Started([Count |-> 0], mw, <<"plain">>)
    /\ ls = NoListenerStore /\ ms = NoMiddlewareStore

NextDrop ==
    \/ Calls < MaxSeqCalls /\ \E a \in Actions : CallDispatch(Main, a)
    \/ LockArrive(Main)
    \/ LockAcquire(Main)
    \/ DispatchInternalRead(Main)
    \/ DispatchInternalWrite(Main)
    \/ DispatchInternalUnlock(Main)
    \/ DispatchInternalRLock(Main)
    \/ DispatchInternalSnapshot(Main)
    \/ DispatchInternalRUnlock(Main)
    \/ DispatchInternalNotify(Main)
    \/ DispatchInternalReturn(Main)
    \/ ProbeBefore(Main)
    \/ ProbeAfter(Main)
    \/ DropBefore(Main)
    \/ DropAfter(Main)
    \/ CallbackPlain(Main)

SpecDrop == InitDrop /\ [][NextDrop]_vars

\* the place of Drop in the middleware list
DropAt == CHOOSE j \in 1..Len(middleware) : middleware[j] = "Drop"

\* the middleware after Drop in the list: the stages it wraps
InnerToDrop == {middleware[j] : j \in (DropAt + 1)..Len(middleware)}

\* the current call of Main is a Dispatch that Drop has swallowed
SwallowedCall == \E j \in 1..Len(trace[Main]) : trace[Main][j].e = "swallowed"

\* C15.  When a middleware does not call next for an action, that Dispatch
\* runs no middleware inner to it, does not reach the reducer and invokes no
\* subscriber, and the stored state stays as it was: the state is the replay
\* of the transitions made, which are one for each Increment dispatched and
\* none for a Decrement; a Dispatch that is passed on runs the whole pipeline.
C15_SwallowedActionStalls ==
    /\ SwallowedCall =>
           \A j \in 1..Len(trace[Main]) :
               /\ trace[Main][j].e \notin {"reducer", "callback"}
               /\ trace[Main][j].k \notin InnerToDrop
    /\ state = Replay(Len(applied))
    /\ \A n \in 1..Len(applied) : applied[n].act \notin Swallowed
    /\ ~Running(Main) =>
           /\ Len(applied) = issued[Main]["Increment"]
           /\ state.Count = initialState.Count + issued[Main]["Increment"]
           /\ (trace[Main] # <<>> /\ ~SwallowedCall) =>
                  /\ PipelineEvents(Main) = OnionOrder(middleware)
                  /\ \E j \in 1..Len(trace[Main]) : trace[Main][j].e = "callback"

C15_Witness ==
    /\ ~Running(Main)
    /\ middleware = <<"A", "Drop", "B">>
    /\ SwallowedCall
    /\ trace[Main] = <<Event("before", "A", 0, Main), Event("swallowed", "Drop", 0, Main),
                       Event("after", "A", 0, Main)>>
    /\ issued[Main]["Decrement"] = 2
    /\ applied = <<[t |-> Main, seq |-> 2, act |-> "Increment"]>>
    /\ state.Count = 1

---------------------------------------------------------------------------
\* the stages of a pipeline from its j-th on
StagesFrom(p, j) == SubSeq(p, j, Len(p))

\* the frames of goroutine t that are stages of a pipeline
StageFrames(t) ==
    {j \in 1..Len(stack[t]) : stack[t][j].fn \in {"Logging", "A", "B", "Drop", "dispatchInternal"}}

\* C16.  The pipeline is composed once: s.dispatch holds one stage for each
\* middleware of the list (one call of its wrapper, made by NewStore), in the
\* order of the list, with dispatchInternal last; no step of a Dispatch or of
\* any other call assigns s.dispatch or s.middleware; and every Dispatch call
\* runs that pipeline: it starts at its first stage and each stage's next is
\* the rest of it.
C16_PipelineComposedOnce ==
    /\ [][dispatch' = dispatch /\ middleware' = middleware]_vars
    /\ [](/\ Len(dispatch) = Len(middleware) + 1
          /\ \A j \in 1..Len(middleware) : dispatch[j] = middleware[j]
          /\ dispatch[Len(dispatch)] = "dispatchInternal"
          /\ \A j \in StageFrames(Main) :
                 \E m \in 1..Len(dispatch) :
                     /\ stack[Main][j].fn = dispatch[m]
                     /\ stack[Main][j].next = StagesFrom(dispatch, m + 1)
                     /\ stack[Main][j].fn # "dispatchInternal" => m = j)

C16_Witness ==
    /\ Len(applied) = 2
    /\ middleware = <<"Logging", "A", "B">>
    /\ Len(stack[Main]) = 4
    /\ At(Main, "dispatchInternal", "write")
    /\ stack[Main][1].next = <<"A", "B", "dispatchInternal">>

---------------------------------------------------------------------------
\* NewStore called with the reducer reduce or with a nil reducer: it returns a
\* store either way, and the goroutines dispatch to it and read its state.

InitNil ==
    /\ \E r \in {ReduceFn, NilReducer} : StartedWith(r, [Count |-> 0], <<>>, <<"plain">>)
    /\ ls = NoListenerStore /\ ms = NoMiddlewareStore

NextNil ==
    \E t \in Threads :
        \/ Calls < MaxCalls /\ \E a \in Actions : CallDispatch(t, a)
        \/ Calls < MaxCalls /\ CallGetState(t)
        \/ LockArrive(t)
        \/ LockAcquire(t)
        \/ DispatchInternalRead(t)
        \/ DispatchInternalWrite(t)
        \/ DispatchInternalPanic(t)
        \/ DispatchInternalUnlock(t)
        \/ DispatchInternalRLock(t)
        \/ DispatchInternalSnapshot(t)
        \/ DispatchInternalRUnlock(t)
        \/ DispatchInternalNotify(t)
        \/ DispatchInternalReturn(t)
        \/ GetStateRLock(t)
        \/ GetStateCopy(t)
        \/ GetStateReturn(t)
        \/ CallbackPlain(t)

SpecNil == InitNil /\ [][NextNil]_vars

\* C17.  A nil reducer makes NewStore fail, so that no failure happens later:
\* no goroutine ever fails inside dispatchInternal, with the write lock held,
\* for want of a reducer.
C17_NilReducerFailsFast ==
    \A t \in Threads : ~(At(t, "dispatchInternal", "panic") /\ mu.writer = t)

---------------------------------------------------------------------------
\* Concurrent use of every operation: the goroutines call Dispatch, GetState,
\* Subscribe and the unsubscribe closures, a finite number of times
\* altogether; the callbacks return without calling the store.

InitLive ==
    /\ Started([Count |-> 0], <<>>, <<"plain">>)
    /\ ls = NoListenerStore /\ ms = NoMiddlewareStore

\* the steps of a goroutine inside a call
StepLive(t) ==
    \/ LockArrive(t)
    \/ LockAcquire(t)
    \/ DispatchInternalRead(t)
    \/ DispatchInternalWrite(t)
    \/ DispatchInternalUnlock(t)
    \/ DispatchInternalRLock(t)
    \/ DispatchInternalSnapshot(t)
    \/ DispatchInternalRUnlock(t)
    \/ DispatchInternalNotify(t)
    \/ DispatchInternalReturn(t)
    \/ GetStateRLock(t)
    \/ GetStateCopy(t)
    \/ GetStateReturn(t)
    \/ SubscribeAppend(t)
    \/ SubscribeReturn(t)
    \/ UnsubscribeRemove(t)
    \/ UnsubscribeReturn(t)
    \/ CallbackPlain(t)

NextLive ==
    \E t \in Threads :
        \/ Calls < MaxLiveCalls /\ CallDispatch(t, "Increment")
        \/ Calls < MaxLiveCalls /\ CallGetState(t)
        \/ Calls < MaxLiveCalls /\ CallSubscribe(t, "plain")
        \/ Calls < MaxLiveCalls /\ \E id \in 1..Len(closures) : CallUnsubscribe(t, id)
        \/ StepLive(t)

\* Fair scheduling: a goroutine that can take a step inside its call does not
\* wait for ever.  The number of calls is finite, so a goroutine waiting for
\* the lock is not overtaken for ever, and weak fairness is enough.
SpecLive == InitLive /\ [][NextLive]_vars /\ \A t \in Threads : WF_vars(StepLive(t))

\* C18.  Every call returns, and when all calls have returned no lock is held
\* (each Lock and RLock was matched by its Unlock or RUnlock) and no goroutine
\* is queued for it.
C18_EveryCallReturns ==
    /\ \A t \in Threads : [](Running(t) => <>(~Running(t)))
    /\ [](AllIdle => mu = FreeMutex)

C18_Witness ==
    /\ AllIdle
    /\ Calls = MaxLiveCalls
    /\ mu = FreeMutex
    /\ Len(applied) >= 1
    /\ \E id \in 1..Len(closures) : closures[id].gone

====
